---- MODULE Spec2Model ----
(***************************************************************************)
(* Model of the MoveTo stage (core/src/stages/move_to.cpp): property       *)
(* setters, goal interpretation (getJointStateGoal), ik-frame and target   *)
(* resolution, the planner call and the storing of the result in compute.  *)
(***************************************************************************)
EXTENDS Integers, Sequences, FiniteSets, TLC

VARIABLES
    goal,              \* property "goal" (boost::any)
    ik_frame,          \* property "ik_frame" (boost::any holding a PoseStamped)
    groupKnown,        \* robot_model->getJointModelGroup(group) != nullptr
    tips,              \* jmg->getEndEffectorTips
    storeFailures,     \* storeFailures()
    parentConf,        \* state.scene()->getCurrentState()
    dir,               \* Interface::Direction of the invocation
    pc,                \* position inside compute
    sceneConf,         \* scene->getCurrentState() of the diff scene
    matched,           \* return value of getJointStateGoal
    ik_pose_msg,       \* ik_pose_msg.header.frame_id
    success,           \* local success
    robot_trajectory,  \* local robot_trajectory
    solution,          \* SubTrajectory solution
    outcome,           \* how compute left: running / true / false / exception
    thrown,            \* what() of the exception that left compute
    parent0,           \* history: parent configuration when compute was entered
    tried,             \* history: interpretations attempted, in order
    plannerCalls,      \* history: planner_->plan calls, in order
    plannerResult,     \* history: trajectory the planner returned
    frameLog           \* history: knowsFrameTransform / getFrameTransform calls

vars == <<goal, ik_frame, groupKnown, tips, storeFailures, parentConf, dir, pc,
          sceneConf, matched, ik_pose_msg, success, robot_trajectory, solution,
          outcome, thrown, parent0, tried, plannerCalls, plannerResult, frameLog>>

props == <<goal, ik_frame, groupKnown, tips, storeFailures, parentConf>>
hist  == <<tried, plannerCalls, plannerResult, frameLog>>

----------------------------------------------------------------------------
(* Bounds *)
MaxGoalJoints == 2     \* joints named by one goal
MaxTrajLen == 2        \* waypoints of a planner trajectory

(* The robot: joints in key order of std::map<std::string, double> *)
JointOrder == <<"elbow", "finger", "wrist">>
RobotJoints == {"elbow", "finger", "wrist"}
GroupJoints == {"elbow", "wrist"}          \* jmg->getJointModelNames()
JointVals == {0, 1}
Configs == [RobotJoints -> JointVals]
ZeroConf == [j \in RobotJoints |-> 0]
StartConfigs == {ZeroConf, [ZeroConf EXCEPT !["wrist"] = 1]}
NamedPoses == {"home"}                     \* default states of the group
PoseNames == {"home", "bogus"}
HomeConf == [j \in GroupJoints |-> 1]
IkSolution == [j \in RobotJoints |-> 1]

(* Frames *)
KnownFrames == {"world", "tip_a", "tip_b", "object"}
GoalFrames == {"world", "ghost"}
IkFrameIds == {"", "tip_a", "object", "ghost"}
TipLists == {<<>>, <<"tip_a">>, <<"tip_a", "tip_b">>}
Unset == [set |-> FALSE]

Range(s) == {s[i] : i \in 1..Len(s)}

SeqsUpTo(S, n) == UNION {[1..k -> S] : k \in 0..n}

----------------------------------------------------------------------------
(* Goal values *)
NoGoal == [kind |-> "empty"]
NamedGoals == {[kind |-> "string", name |-> n] : n \in PoseNames}
JointEntries == RobotJoints \X JointVals
DistinctNames(s) == \A i, k \in 1..Len(s) : i # k => s[i][1] # s[k][1]
JointStates == {s \in SeqsUpTo(JointEntries, MaxGoalJoints) : DistinctNames(s)}
MultiDofNames == {<<>>} \cup {<<n>> : n \in RobotJoints}
RobotStateGoals ==
    {[kind |-> "RobotState", is_diff |-> d, joint_state |-> js, multi_dof |-> md] :
        d \in BOOLEAN, js \in JointStates, md \in MultiDofNames}
JointMaps == UNION {[D -> JointVals] :
                      D \in {S \in SUBSET RobotJoints : Cardinality(S) <= MaxGoalJoints}}
JointMapGoals == {[kind |-> "map", joints |-> m] : m \in JointMaps}
PoseGoals == {[kind |-> "PoseStamped", frame_id |-> f] : f \in GoalFrames}
PointGoals == {[kind |-> "PointStamped", frame_id |-> f] : f \in GoalFrames}
OtherGoal == [kind |-> "int"]
GoalSpecs == {NoGoal, OtherGoal} \cup NamedGoals \cup RobotStateGoals
                \cup JointMapGoals \cup PoseGoals \cup PointGoals

(* Trajectories: a null pointer, or waypoints <<state, duration>> *)
NullTraj == [origin |-> "null", wp |-> <<>>]
EmptySolution == [trajectory |-> NullTraj, failed |-> FALSE, message |-> ""]

----------------------------------------------------------------------------
Init ==
    /\ goal = NoGoal
    /\ ik_frame = Unset
    /\ groupKnown \in BOOLEAN
    /\ tips \in TipLists
    /\ storeFailures \in BOOLEAN
    /\ parentConf \in StartConfigs
    /\ dir = "FORWARD"
    /\ pc = "configure"
    /\ sceneConf = ZeroConf
    /\ matched = FALSE
    /\ ik_pose_msg = ""
    /\ success = FALSE
    /\ robot_trajectory = NullTraj
    /\ solution = EmptySolution
    /\ outcome = "running"
    /\ thrown = ""
    /\ parent0 = parentConf
    /\ tried = <<>>
    /\ plannerCalls = <<>>
    /\ plannerResult = NullTraj
    /\ frameLog = <<>>

----------------------------------------------------------------------------
(* Collaborators *)

\* SolutionBase::markAsFailure(msg): the record is failed; a non-empty msg
\* becomes its message
markAsFailure(sol, msg) ==
    [sol EXCEPT !.failed = TRUE, !.message = IF msg = "" THEN @ ELSE msg]

\* RobotState::setToDefaultValues(jmg, name): FALSE for an unknown name
setToDefaultValues(conf, name) ==
    IF name \in NamedPoses
    THEN [ok |-> TRUE, conf |-> [j \in RobotJoints |->
                                   IF j \in GroupJoints THEN HomeConf[j] ELSE conf[j]]]
    ELSE [ok |-> FALSE, conf |-> conf]

\* utils::getRigidlyConnectedParentLinkModel(state, frame)->getName()
ParentLink(f) == IF f = "object" THEN "tip_a" ELSE f

\* knowsFrameTransform(f)
knowsFrameTransform(f) == f \in KnownFrames

\* getFrameTransform(f) of a frame the scene does not know is undefined:
\* the call yields some transform or does not return
LookupOutcomes(f) == IF knowsFrameTransform(f) THEN {"ok"} ELSE {"undefined", "crash"}

\* RobotTrajectory::reverse(): waypoints in reverse order, the durations
\* rotated so that each still precedes its waypoint
reverse(wp) ==
    LET n == Len(wp)
        st == [i \in 1..n |-> wp[n + 1 - i][1]]
        du == [i \in 1..n |-> IF i = 1 THEN wp[1][2] ELSE wp[n + 2 - i][2]]
    IN  [i \in 1..n |-> <<st[i], du[i]>>]

\* trajectories a planner may hand back between two configurations
PlannerTrajectories(from, to) ==
    {[origin |-> "planner",
      wp |-> [i \in 1..Len(s) |-> <<s[i], IF i = 1 THEN 0 ELSE 1>>]] :
        s \in SeqsUpTo({from, to}, MaxTrajLen)}

\* outcome of planner_->plan: the flag and the trajectory are independent
PlannerResults(from, to) ==
    {[success |-> b, trajectory |-> t] :
        b \in BOOLEAN, t \in {NullTraj} \cup PlannerTrajectories(from, to)}

----------------------------------------------------------------------------
(* Property setters, lines 73-91.  Setting a property again overwrites it   *)
(* and leads to a state that one call reaches, so each is set once.        *)

\* setProperty("goal", value)
setGoalProperty ==
    /\ pc = "configure"
    /\ goal = NoGoal
    /\ \E g \in GoalSpecs : goal' = g
    /\ UNCHANGED <<ik_frame, groupKnown, tips, storeFailures, parentConf, dir, pc,
                   sceneConf, matched, ik_pose_msg, success, robot_trajectory,
                   solution, outcome, thrown, parent0, hist>>

\* the RobotState that setGoal(const std::map<std::string, double>&) builds
RobotStateOfMap(m) ==
    LET keys == SelectSeq(JointOrder, LAMBDA j : j \in DOMAIN m)
    IN  [kind |-> "RobotState", is_diff |-> TRUE,
         joint_state |-> [i \in 1..Len(keys) |-> <<keys[i], m[keys[i]]>>],
         multi_dof |-> <<>>]

setGoal ==
    /\ pc = "configure"
    /\ goal = NoGoal
    /\ \E m \in JointMaps : goal' = RobotStateOfMap(m)
    /\ UNCHANGED <<ik_frame, groupKnown, tips, storeFailures, parentConf, dir, pc,
                   sceneConf, matched, ik_pose_msg, success, robot_trajectory,
                   solution, outcome, thrown, parent0, hist>>

setIKFrame ==
    /\ pc = "configure"
    /\ ik_frame = Unset
    /\ \E f \in IkFrameIds : ik_frame' = [set |-> TRUE, frame_id |-> f]
    /\ UNCHANGED <<goal, groupKnown, tips, storeFailures, parentConf, dir, pc,
                   sceneConf, matched, ik_pose_msg, success, robot_trajectory,
                   solution, outcome, thrown, parent0, hist>>

----------------------------------------------------------------------------
(* compute, lines 178-296 *)

Return(val) == pc' = "done" /\ outcome' = val
Throw(kind, what) == pc' = "done" /\ outcome' = kind /\ thrown' = what

\* lines 178-196: diff scene, group and goal properties
compute_begin ==
    /\ pc = "configure"
    /\ \E d \in {"FORWARD", "BACKWARD"} : dir' = d
    /\ parent0' = parentConf
    /\ sceneConf' = parentConf
    /\ IF ~groupKnown
       THEN /\ solution' = markAsFailure(solution, "invalid joint model group")
            /\ Return("false")
       ELSE IF goal.kind = "empty"
       THEN /\ solution' = markAsFailure(solution, "undefined goal")
            /\ Return("false")
       ELSE /\ pc' = "named"
            /\ UNCHANGED <<solution, outcome>>
    /\ UNCHANGED <<props, matched, ik_pose_msg, success, robot_trajectory,
                   thrown, hist>>

\* as getJointStateGoal_named, but an unknown pose name falls through to the
\* next interpretation
getJointStateGoal_named_FallThrough ==
    /\ pc = "named"
    /\ tried' = Append(tried, "NamedPose")
    /\ IF goal.kind = "string" /\ setToDefaultValues(sceneConf, goal.name).ok
       THEN /\ sceneConf' = setToDefaultValues(sceneConf, goal.name).conf
            /\ matched' = TRUE
            /\ pc' = "plan_joint"
       ELSE /\ pc' = "robotstate"
            /\ UNCHANGED <<sceneConf, matched>>
    /\ UNCHANGED <<props, dir, ik_pose_msg, success, robot_trajectory, solution,
                   outcome, thrown, parent0, plannerCalls, plannerResult, frameLog>>

\* lines 100-108: try named joint pose
getJointStateGoal_named ==
    /\ pc = "named"
    /\ tried' = Append(tried, "NamedPose")
    /\ IF goal.kind = "string"
       THEN LET r == setToDefaultValues(sceneConf, goal.name)
            IN  IF ~r.ok
                THEN /\ Throw("InitStageException", "Unknown joint pose")
                     /\ UNCHANGED <<sceneConf, matched>>
                ELSE /\ sceneConf' = r.conf
                     /\ matched' = TRUE
                     /\ pc' = "plan_joint"
                     /\ UNCHANGED <<outcome, thrown>>
       ELSE /\ pc' = "robotstate"
            /\ UNCHANGED <<sceneConf, matched, outcome, thrown>>
    /\ UNCHANGED <<props, dir, ik_pose_msg, success, robot_trajectory, solution,
                   parent0, plannerCalls, plannerResult, frameLog>>

\* lines 117-123: first name that is not a joint of the group, or ""
RECURSIVE FirstRejected(_)
FirstRejected(names) ==
    IF names = <<>> THEN ""
    ELSE IF Head(names) \notin GroupJoints THEN Head(names)
    ELSE FirstRejected(Tail(names))

\* robotStateMsgToRobotState(msg, state, false): joint_state positions
RECURSIVE setVariablePositions(_, _)
setVariablePositions(conf, js) ==
    IF js = <<>> THEN conf
    ELSE setVariablePositions([conf EXCEPT ![Head(js)[1]] = Head(js)[2]], Tail(js))

\* as RobotStateBranch, but the joints of the group are written although a
\* name is rejected
RobotStateBranch_WriteFirst(msg, conf) ==
    LET names == [i \in 1..Len(msg.joint_state) |-> msg.joint_state[i][1]]
        bad == FirstRejected(names \o msg.multi_dof)
        valid == SelectSeq(msg.joint_state, LAMBDA e : e[1] \in GroupJoints)
    IN  [ok |-> bad = "", conf |-> setVariablePositions(conf, valid), bad |-> bad]

\* lines 112-126: the RobotState branch; the configuration it leaves and
\* the name it rejects
RobotStateBranch(msg, conf) ==
    LET names == [i \in 1..Len(msg.joint_state) |-> msg.joint_state[i][1]]
        bad == FirstRejected(names \o msg.multi_dof)
    IN  IF bad # "" THEN [ok |-> FALSE, conf |-> conf, bad |-> bad]
        ELSE [ok |-> TRUE, conf |-> setVariablePositions(conf, msg.joint_state),
              bad |-> ""]

\* lines 110-128: try RobotState
getJointStateGoal_robotstate ==
    /\ pc = "robotstate"
    /\ tried' = Append(tried, "RobotState")
    /\ IF goal.kind = "RobotState"
       THEN IF ~goal.is_diff
            THEN /\ Throw("InitStageException", "Expecting a diff state")
                 /\ UNCHANGED <<sceneConf, matched>>
            ELSE LET r == RobotStateBranch(goal, sceneConf)
                 IN  /\ sceneConf' = r.conf
                     /\ IF r.ok
                        THEN /\ matched' = TRUE
                             /\ pc' = "plan_joint"
                             /\ UNCHANGED <<outcome, thrown>>
                        ELSE /\ Throw("InitStageException", "Joint is not part of group")
                             /\ UNCHANGED matched
       ELSE /\ pc' = "map"
            /\ UNCHANGED <<sceneConf, matched, outcome, thrown>>
    /\ UNCHANGED <<props, dir, ik_pose_msg, success, robot_trajectory, solution,
                   parent0, plannerCalls, plannerResult, frameLog>>

\* lines 133-138: the loop over the map in key order, checking and writing
\* one joint at a time
RECURSIVE JointMapLoop(_, _, _)
JointMapLoop(keys, m, conf) ==
    IF keys = <<>> THEN [ok |-> TRUE, conf |-> conf, bad |-> ""]
    ELSE IF Head(keys) \notin GroupJoints
    THEN [ok |-> FALSE, conf |-> conf, bad |-> Head(keys)]
    ELSE JointMapLoop(Tail(keys), m, [conf EXCEPT ![Head(keys)] = m[Head(keys)]])

SortedKeys(m) == SelectSeq(JointOrder, LAMBDA j : j \in DOMAIN m)

\* lines 130-144: try std::map<std::string, double>
getJointStateGoal_map ==
    /\ pc = "map"
    /\ tried' = Append(tried, "JointMap")
    /\ IF goal.kind = "map"
       THEN LET r == JointMapLoop(SortedKeys(goal.joints), goal.joints, sceneConf)
            IN  /\ sceneConf' = r.conf
                /\ IF r.ok
                   THEN /\ matched' = TRUE
                        /\ pc' = "plan_joint"
                        /\ UNCHANGED <<outcome, thrown>>
                   ELSE /\ Throw("InitStageException", "Joint is not part of group")
                        /\ UNCHANGED matched
       ELSE /\ pc' = "ik_frame"
            /\ UNCHANGED <<sceneConf, matched, outcome, thrown>>
    /\ UNCHANGED <<props, dir, ik_pose_msg, success, robot_trajectory, solution,
                   parent0, plannerCalls, plannerResult, frameLog>>

\* lines 202-204: plan to joint-space target
plan_joint ==
    /\ pc = "plan_joint"
    /\ \E r \in PlannerResults(parentConf, sceneConf) :
          /\ success' = r.success
          /\ robot_trajectory' = r.trajectory
          /\ plannerResult' = r.trajectory
    /\ plannerCalls' = Append(plannerCalls, "joint")
    /\ pc' = "store"
    /\ UNCHANGED <<props, dir, sceneConf, matched, ik_pose_msg, solution, outcome,
                   thrown, parent0, tried, frameLog>>

\* as get_tip, but the first of several tips is taken
get_tip_First(tl) == IF Len(tl) = 0 THEN [ok |-> FALSE, out |-> ""]
                     ELSE [ok |-> TRUE, out |-> tl[1]]

\* lines 213-222: the unique end-effector tip of the group
get_tip(tl) == IF Len(tl) # 1 THEN [ok |-> FALSE, out |-> ""]
               ELSE [ok |-> TRUE, out |-> tl[1]]

\* lines 224-241: frame id of the ik frame, or the failure message
IkFrameResolution(value, tl) ==
    IF ~value.set
    THEN IF ~get_tip(tl).ok
         THEN [ok |-> FALSE, msg |-> "missing ik_frame", frame |-> "", log |-> <<>>]
         ELSE [ok |-> TRUE, msg |-> "", frame |-> get_tip(tl).out, log |-> <<>>]
    ELSE IF value.frame_id = "" /\ ~get_tip(tl).ok
         THEN [ok |-> FALSE,
               msg |-> "frame_id of ik_frame is empty and no unique group tip was found",
               frame |-> "", log |-> <<>>]
         ELSE LET f == IF value.frame_id = "" THEN get_tip(tl).out ELSE value.frame_id
              IN  IF ~knowsFrameTransform(f)
                  THEN [ok |-> FALSE, msg |-> "ik_frame specified in unknown frame",
                        frame |-> f, log |-> <<<<"knows", f>>>>]
                  ELSE [ok |-> TRUE, msg |-> "", frame |-> f,
                        log |-> <<<<"knows", f>>>>]

\* lines 205-248: the ik frame and its pose in the world
resolveIkFrame ==
    /\ pc = "ik_frame"
    /\ tried' = Append(tried, "ik_frame")
    /\ LET r == IkFrameResolution(ik_frame, tips)
       IN  /\ ik_pose_msg' = r.frame
           /\ IF ~r.ok
              THEN /\ frameLog' = frameLog \o r.log
                   /\ solution' = markAsFailure(solution, r.msg)
                   /\ Return("false")
              ELSE /\ frameLog' = frameLog \o r.log \o <<<<"get", r.frame>>>>
                   /\ UNCHANGED solution
                   /\ \E o \in LookupOutcomes(r.frame) :
                         IF o = "crash" THEN Return("crash")
                         ELSE pc' = "target" /\ UNCHANGED outcome
    /\ UNCHANGED <<props, dir, sceneConf, matched, success, robot_trajectory,
                   thrown, parent0, plannerCalls, plannerResult>>

\* lines 250-253 with getPoseGoal (147-158) and getPointGoal (160-176)
resolveTarget ==
    /\ pc = "target"
    /\ IF goal.kind = "PoseStamped"
       THEN /\ tried' = Append(tried, "PoseStamped")
            /\ frameLog' = Append(frameLog, <<"get", goal.frame_id>>)
            /\ UNCHANGED solution
            /\ \E o \in LookupOutcomes(goal.frame_id) :
                  IF o = "crash" THEN Return("crash")
                  ELSE pc' = "plan_cartesian" /\ UNCHANGED outcome
       ELSE IF goal.kind = "PointStamped"
       THEN /\ tried' = tried \o <<"PoseStamped", "PointStamped">>
            /\ frameLog' = Append(frameLog, <<"get", goal.frame_id>>)
            /\ UNCHANGED solution
            /\ \E o \in LookupOutcomes(goal.frame_id) :
                  IF o = "crash" THEN Return("crash")
                  ELSE pc' = "plan_cartesian" /\ UNCHANGED outcome
       ELSE /\ tried' = tried \o <<"PoseStamped", "PointStamped">>
            /\ solution' = markAsFailure(solution, "invalid goal type")
            /\ Return("false")
            /\ UNCHANGED frameLog
    /\ UNCHANGED <<props, dir, sceneConf, matched, ik_pose_msg, success,
                   robot_trajectory, thrown, parent0, plannerCalls, plannerResult>>

\* lines 255-275: re-base on the parent link and plan to Cartesian target
plan_cartesian ==
    /\ pc = "plan_cartesian"
    /\ frameLog' = Append(frameLog, <<"get", ParentLink(ik_pose_msg)>>)
    /\ \E r \in PlannerResults(parentConf, IkSolution) :
          /\ success' = r.success
          /\ robot_trajectory' = r.trajectory
          /\ plannerResult' = r.trajectory
    /\ plannerCalls' = Append(plannerCalls, "cartesian")
    /\ pc' = "store"
    /\ UNCHANGED <<props, dir, sceneConf, matched, ik_pose_msg, solution, outcome,
                   thrown, parent0, tried>>

\* lines 279-283: the two-waypoint trajectory recorded for a failure
Fallback(start, end) ==
    [origin |-> "fallback", wp |-> <<<<start, 0>>, <<end, 1>>>>]

\* as WithFallback, but without regard to storeFailures()
WithFallback_Always(rt, sf, start, end) ==
    IF rt.origin = "null" THEN Fallback(start, end) ELSE rt

\* lines 279-283
WithFallback(rt, sf, start, end) ==
    IF rt.origin = "null" /\ sf THEN Fallback(start, end) ELSE rt

\* lines 286-288: the trajectory handed to the solution
Directed(rt, d) == IF d = "BACKWARD" THEN [rt EXCEPT !.wp = reverse(@)] ELSE rt

\* lines 290-291
MarkResult(sol, ok) == IF ~ok THEN markAsFailure(sol, "") ELSE sol

\* as setCurrentState, but on the scene of the interface state
setCurrentState_Parent(c) == parentConf' = c /\ sceneConf' = sceneConf

\* line 285: scene->setCurrentState(...) writes the diff scene
setCurrentState(c) == sceneConf' = c /\ parentConf' = parentConf

\* lines 278-295: store result
store_result ==
    /\ pc = "store"
    /\ LET rt == WithFallback(robot_trajectory, storeFailures, parentConf, sceneConf)
       IN  /\ robot_trajectory' = rt
           /\ IF rt.origin # "null"
              THEN IF rt.wp = <<>>
                   THEN \* getLastWayPoint() of an empty trajectory is undefined
                        \/ /\ Return("crash")
                           /\ UNCHANGED <<sceneConf, parentConf, solution>>
                        \/ /\ \E c \in Configs : setCurrentState(c)
                           /\ solution' = MarkResult(
                                 [solution EXCEPT !.trajectory = Directed(rt, dir)],
                                 success)
                           /\ Return("true")
                   ELSE /\ setCurrentState(rt.wp[Len(rt.wp)][1])
                        /\ solution' = MarkResult(
                              [solution EXCEPT !.trajectory = Directed(rt, dir)],
                              success)
                        /\ Return("true")
              ELSE /\ Return("false")
                   /\ UNCHANGED <<sceneConf, parentConf, solution>>
    /\ UNCHANGED <<goal, ik_frame, groupKnown, tips, storeFailures, dir, matched,
                   ik_pose_msg, success, thrown, parent0, hist>>

Next ==
    \/ setGoalProperty
    \/ setGoal
    \/ setIKFrame
    \/ compute_begin
    \/ getJointStateGoal_named
    \/ getJointStateGoal_robotstate
    \/ getJointStateGoal_map
    \/ plan_joint
    \/ resolveIkFrame
    \/ resolveTarget
    \/ plan_cartesian
    \/ store_result

Spec == Init /\ [][Next]_vars

----------------------------------------------------------------------------
(* Properties *)

IsPrefix(s, t) == Len(s) <= Len(t) /\ \A i \in 1..Len(s) : s[i] = t[i]
Done == pc = "done"
PlannerCalled == plannerCalls # <<>>
JointNotInGroup == outcome = "InitStageException" /\ thrown = "Joint is not part of group"

\* the interpretation of getJointStateGoal that the goal's type matches
StructuralKind ==
    IF goal.kind = "string" THEN "NamedPose"
    ELSE IF goal.kind = "RobotState" THEN "RobotState"
    ELSE IF goal.kind = "map" THEN "JointMap"
    ELSE ""

InterpretationOrder ==
    <<"NamedPose", "RobotState", "JointMap", "ik_frame", "PoseStamped", "PointStamped">>

\* C1: interpretations are attempted in the fixed order and stop at the first
\* structural match, valid or not: nothing is attempted after it, no frame
\* is resolved, and the planner is called at most once, in the joint-space
\* form only if getJointStateGoal matched and in the Cartesian form only if
\* it did not.
C1_FirstMatchCommits ==
    /\ IsPrefix(tried, InterpretationOrder)
    /\ StructuralKind # "" =>
          /\ \A i \in 1..Len(tried) : tried[i] = StructuralKind => i = Len(tried)
          /\ frameLog = <<>>
          /\ "cartesian" \notin Range(plannerCalls)
    /\ Len(plannerCalls) <= 1
    /\ "joint" \in Range(plannerCalls) => matched /\ StructuralKind # ""
    /\ "cartesian" \in Range(plannerCalls) => ~matched /\ StructuralKind = ""

\* C1 witness: an unknown named pose matched structurally and ended compute
\* with no further interpretation and no planner call
C1_Witness ==
    /\ Done
    /\ goal.kind = "string" /\ goal.name \notin NamedPoses
    /\ tried = <<"NamedPose">>
    /\ plannerCalls = <<>>

GoalValueError ==
    \/ goal.kind = "string" /\ goal.name \notin NamedPoses
    \/ goal.kind = "RobotState" /\ ~goal.is_diff
    \/ /\ goal.kind = "RobotState"
       /\ \/ \E i \in 1..Len(goal.joint_state) : goal.joint_state[i][1] \notin GroupJoints
          \/ \E i \in 1..Len(goal.multi_dof) : goal.multi_dof[i] \notin GroupJoints
    \/ goal.kind = "map" /\ ~(DOMAIN goal.joints \subseteq GroupJoints)
    \/ goal.kind = "int" /\ "PointStamped" \in Range(tried)

\* C2: an error that depends on the goal value (unknown named pose, robot
\* state without the diff flag, joint outside the group, invalid goal type)
\* ends compute with the solution marked failed and carrying a message, and
\* is never raised as InitStageException while compute runs.
C2_GoalErrorsArePerInvocation ==
    /\ outcome # "InitStageException"
    /\ Done /\ groupKnown /\ GoalValueError =>
          outcome = "false" /\ solution.failed /\ solution.message # ""

\* C3: a solution that compute emitted and did not mark as failure carries a
\* trajectory of at least one waypoint that the planner produced.
C3_SuccessHasPlannedTrajectory ==
    Done /\ outcome = "true" /\ ~solution.failed =>
        /\ solution.trajectory.origin = "planner"
        /\ Len(solution.trajectory.wp) >= 1

\* C4: a solution marked failed carries a non-empty failure message.
C4_FailedHasMessage == solution.failed => solution.message # ""

\* C5: when the planner returned no trajectory and storeFailures() holds, the
\* stored trajectory is the two waypoints start configuration, working
\* configuration (in reverse order for BACKWARD) and the solution is marked
\* as failure.
C5_FallbackStoredAsFailure ==
    Done /\ PlannerCalled /\ plannerResult.origin = "null" /\ storeFailures =>
        /\ outcome = "true"
        /\ Len(solution.trajectory.wp) = 2
        /\ <<solution.trajectory.wp[1][1], solution.trajectory.wp[2][1]>> =
              IF dir = "BACKWARD" THEN <<sceneConf, parent0>> ELSE <<parent0, sceneConf>>
        /\ solution.failed

\* C6: compute returns true exactly when a trajectory was stored in the
\* solution; with storeFailures() off and no trajectory from the planner,
\* none is stored and compute returns false.
C6_TrueIffTrajectoryStored ==
    /\ (outcome = "true") <=> (solution.trajectory.origin # "null")
    /\ Done /\ PlannerCalled /\ plannerResult.origin = "null" /\ ~storeFailures =>
          outcome = "false" /\ solution.trajectory = NullTraj

\* C6 witness: the planner returned nothing, failures are not stored, and
\* compute returned false
C6_Witness ==
    /\ Done /\ PlannerCalled
    /\ plannerResult.origin = "null" /\ ~storeFailures
    /\ outcome = "false"

NotJointGoal == goal.kind \in {"PoseStamped", "PointStamped", "int"}
IkFrameEmpty == ~ik_frame.set \/ ik_frame.frame_id = ""
IkFrameMissing == IkFrameEmpty /\ Len(tips) # 1
IkFrameUnknown == ~IkFrameEmpty /\ ik_frame.frame_id \notin KnownFrames

\* C7: for a goal that is not a joint-space goal, an ik frame that is unset
\* or has an empty frame id while the group has no unique tip, or that names
\* a frame the scene does not know, makes compute fail with the matching
\* message, and the planner is never called.
C7_IkFrameErrorsBeforePlanner ==
    NotJointGoal /\ (IkFrameMissing \/ IkFrameUnknown) =>
        /\ plannerCalls = <<>>
        /\ Done /\ groupKnown =>
              /\ outcome = "false"
              /\ solution.failed
              /\ solution.message =
                    IF IkFrameUnknown THEN "ik_frame specified in unknown frame"
                    ELSE IF ~ik_frame.set THEN "missing ik_frame"
                    ELSE "frame_id of ik_frame is empty and no unique group tip was found"

\* C7 witness: ik_frame unset, two tips, compute failed for the missing frame
C7_Witness ==
    /\ Done /\ groupKnown /\ NotJointGoal
    /\ ~ik_frame.set /\ Len(tips) = 2
    /\ solution.failed /\ solution.message = "missing ik_frame"
    /\ plannerCalls = <<>>

\* C8: the scene of the interface state keeps the configuration it had when
\* compute was entered, on every path; writes go to the diff scene.
C8_ParentSceneUnchanged == parentConf = parent0

\* C8 witness: compute stored a trajectory and the diff scene now differs
\* from its parent
C8_Witness == Done /\ outcome = "true" /\ sceneConf # parentConf

\* C9: every getFrameTransform lookup made during compute is of a frame the
\* scene knows.
C9_LookupsOfKnownFrames ==
    \A i \in 1..Len(frameLog) :
        frameLog[i][1] = "get" => knowsFrameTransform(frameLog[i][2])

\* C10 as stated: when resolution fails for a joint outside the group, the
\* working configuration is as it was before resolution.
C10_RejectedGoalWritesNothing == JointNotInGroup => sceneConf = parent0

KeyRank(j) == CHOOSE i \in 1..Len(JointOrder) : JointOrder[i] = j
BeforeFirstRejected(m, j) ==
    /\ j \in DOMAIN m
    /\ \A k \in DOMAIN m : k \notin GroupJoints => KeyRank(j) < KeyRank(k)

\* C10 amended: when resolution fails for a joint outside the group, a
\* RobotState goal has written nothing, and a joint map has written exactly
\* the keys that precede, in key order, its first key outside the group.
C10_RejectedGoalWrites ==
    JointNotInGroup =>
        /\ goal.kind = "RobotState" => sceneConf = parent0
        /\ goal.kind = "map" =>
              \A j \in RobotJoints :
                  sceneConf[j] = IF BeforeFirstRejected(goal.joints, j)
                                 THEN goal.joints[j] ELSE parent0[j]

\* C10 witness: a joint map was rejected after one of its values was written
C10_Witness == JointNotInGroup /\ goal.kind = "map" /\ sceneConf # parent0

\* a RobotState goal was rejected for a joint outside the group although it
\* also names joints of the group with new values
C10_WitnessRobotState ==
    /\ JointNotInGroup /\ goal.kind = "RobotState"
    /\ \E i \in 1..Len(goal.joint_state) :
          /\ goal.joint_state[i][1] \in GroupJoints
          /\ goal.joint_state[i][2] # parent0[goal.joint_state[i][1]]
====
